---- MODULE Spec2Model ----
(***************************************************************************)
(* essh (kohkimakimoto/xssh), essh/lualib.go: the bridge between the Lua   *)
(* configuration scripts and the process-wide Hosts, Tasks and             *)
(* LoadedModules collections.                                              *)
(*                                                                         *)
(* Strings are sequences of bytes (Lua strings and Go strings are byte     *)
(* strings).  A Lua value is a pair <<tag, payload>>; a Lua table is a     *)
(* function from Lua keys to non-nil Lua values.                           *)
(***************************************************************************)
EXTENDS Integers, Sequences, FiniteSets, TLC

VARIABLES
    Hosts,          \* the process-wide Host collection (a sequence)
    Tasks,          \* the process-wide Task collection (a sequence)
    LoadedModules,  \* the module registry: name -> [Name, Value]
    stack,          \* esshRequire calls whose L.DoFile has not returned yet
    ncalls,         \* history: esshRequire calls made, per name
    loads,          \* history: module.Load invocations, per name
    evals,          \* history: L.DoFile evaluations started, per name
    nret,           \* history: esshRequire calls that returned a value, per name
    returned,       \* history: the values esshRequire returned, per name
    last,           \* history: the operation that ran last, its input and outcome
    conv            \* toGoValue alone: its argument and its result

vars == <<Hosts, Tasks, LoadedModules, stack, ncalls, loads, evals, nret, returned, last, conv>>

(***************************************************************************)
(* Bounds of the model.                                                    *)
(***************************************************************************)
MaxHosts == 1
MaxTasks == 1
MaxCalls == 2
MaxDepth == 3

(***************************************************************************)
(* Lua values (github.com/yuin/gopher-lua LValue).                         *)
(***************************************************************************)
LNil == <<"nil", 0>>
LTrue == <<"bool", TRUE>>
LFalse == <<"bool", FALSE>>
LBool(b) == <<"bool", b>>
LString(s) == <<"str", s>>
LNumber(n) == <<"num", n>>
LFunction(id) == <<"fn", id>>
LTable(f) == <<"tbl", f>>

EmptyTable == [k \in {} |-> LNil]

\* The program's string literals, as bytes.
Lit ==
    [ hooks            |-> <<104, 111, 111, 107, 115>>,
      before           |-> <<98, 101, 102, 111, 114, 101>>,
      before_connect   |-> <<98, 101, 102, 111, 114, 101, 95, 99, 111, 110, 110, 101, 99, 116>>,
      after_connect    |-> <<97, 102, 116, 101, 114, 95, 99, 111, 110, 110, 101, 99, 116>>,
      after            |-> <<97, 102, 116, 101, 114>>,
      after_disconnect |-> <<97, 102, 116, 101, 114, 95, 100, 105, 115, 99, 111, 110, 110, 101, 99, 116>>,
      description      |-> <<100, 101, 115, 99, 114, 105, 112, 116, 105, 111, 110>>,
      hidden           |-> <<104, 105, 100, 100, 101, 110>>,
      tags             |-> <<116, 97, 103, 115>>,
      pty              |-> <<112, 116, 121>>,
      parallel         |-> <<112, 97, 114, 97, 108, 108, 101, 108>>,
      privileged       |-> <<112, 114, 105, 118, 105, 108, 101, 103, 101, 100>>,
      script           |-> <<115, 99, 114, 105, 112, 116>>,
      file             |-> <<102, 105, 108, 101>>,
      on               |-> <<111, 110>>,
      foreach          |-> <<102, 111, 114, 101, 97, 99, 104>>,
      prefix           |-> <<112, 114, 101, 102, 105, 120>>,
      prepare          |-> <<112, 114, 101, 112, 97, 114, 101>> ]

\* v.(lua.LBool), v.(lua.LString), v.(*lua.LFunction), v.(*lua.LTable): (value, ok)
toBool(v) == IF v[1] = "bool" THEN <<v[2], TRUE>> ELSE <<FALSE, FALSE>>
toString(v) == IF v[1] = "str" THEN <<v[2], TRUE>> ELSE <<(<<>>), FALSE>>
toLFunction(v) == IF v[1] = "fn" THEN <<v, TRUE>> ELSE <<LNil, FALSE>>
toLTable(v) == IF v[1] = "tbl" THEN <<v[2], TRUE>> ELSE <<EmptyTable, FALSE>>

\* tb.RawGet(key), tb.RawGetString(key), tb.RawGetInt(i): LNil for a missing key
RawGet(tb, k) == IF k \in DOMAIN tb THEN tb[k] ELSE LNil
RawGetString(tb, s) == RawGet(tb, LString(s))
RawGetInt(tb, i) == RawGet(tb, LNumber(i))

\* tb.MaxN(): the last index of the table's array part that holds a non-nil
\* value; positive integer keys live in the array part (every gap between
\* them is filled with LNil), so it is the largest positive integer key.
MaxN(tb) ==
    LET idx == {k[2] : k \in {x \in DOMAIN tb : x[1] = "num" /\ x[2] >= 1}}
    IN  IF idx = {} THEN 0 ELSE CHOOSE n \in idx : \A m \in idx : m <= n

(***************************************************************************)
(* Formatting: fmt.Sprint of a converted key, LValue.String() of a key.    *)
(***************************************************************************)
RECURSIVE FormatNat(_)
FormatNat(n) == IF n < 10 THEN <<48 + n>> ELSE Append(FormatNat(n \div 10), 48 + (n % 10))

\* an integral number prints in decimal, "-" first when negative
FormatInt(n) == IF n < 0 THEN <<45>> \o FormatNat(0 - n) ELSE FormatNat(n)

FormatBool(b) == IF b THEN <<116, 114, 117, 101>> ELSE <<102, 97, 108, 115, 101>>

\* k.String() of a table key
LValueString(k) ==
    CASE k[1] = "str"  -> k[2]
      [] k[1] = "num"  -> FormatInt(k[2])
      [] k[1] = "bool" -> FormatBool(k[2])
      [] k[1] = "fn"   -> <<102, 117, 110, 99, 116, 105, 111, 110>>
      [] k[1] = "tbl"  -> <<116, 97, 98, 108, 101>>
      [] OTHER         -> <<110, 105, 108>>

(***************************************************************************)
(* toGoValue and the accessors built on it.  Go values: <<"gonil", 0>>,    *)
(* <<"gobool", b>>, <<"gostring", s>>, <<"float64", n>>, <<"map", f>> (a  *)
(* map[string]interface{}), <<"slice", seq>> ([]interface{}); any other     *)
(* Lua value is returned as it is.                                         *)
(***************************************************************************)
GoNil == <<"gonil", 0>>

\* fmt.Sprint(x) of a converted table key
Sprint(g) ==
    CASE g[1] = "gostring" -> g[2]
      [] g[1] = "float64"  -> FormatInt(g[2])
      [] g[1] = "gobool"   -> FormatBool(g[2])
      [] OTHER             -> <<63>>

RECURSIVE toGoValue(_)
toGoValue_MapOnHole(lv) ==
    CASE lv[1] = "nil"  -> GoNil
      [] lv[1] = "bool" -> <<"gobool", lv[2]>>
      [] lv[1] = "str"  -> <<"gostring", lv[2]>>
      [] lv[1] = "num"  -> <<"float64", lv[2]>>
      [] lv[1] = "tbl"  ->
            LET v == lv[2]
                maxn == MaxN(v)
                dense == \A i \in 1..maxn : LNumber(i) \in DOMAIN v
            IN  IF maxn = 0 \/ ~dense
                THEN LET keys == {Sprint(toGoValue(k)) : k \in DOMAIN v}
                     IN  <<"map", [s \in keys |->
                            toGoValue(v[CHOOSE k \in DOMAIN v : Sprint(toGoValue(k)) = s])]>>
                ELSE <<"slice", [i \in 1..maxn |-> toGoValue(RawGetInt(v, i))]>>
      [] OTHER -> lv

toGoValue(lv) ==
    CASE lv[1] = "nil"  -> GoNil
      [] lv[1] = "bool" -> <<"gobool", lv[2]>>
      [] lv[1] = "str"  -> <<"gostring", lv[2]>>
      [] lv[1] = "num"  -> <<"float64", lv[2]>>
      [] lv[1] = "tbl"  ->
            LET v == lv[2]
                maxn == MaxN(v)
            IN  IF maxn = 0
                THEN LET keys == {Sprint(toGoValue(k)) : k \in DOMAIN v}
                     IN  <<"map", [s \in keys |->
                            toGoValue(v[CHOOSE k \in DOMAIN v : Sprint(toGoValue(k)) = s])]>>
                ELSE <<"slice", [i \in 1..maxn |-> toGoValue(RawGetInt(v, i))]>>
      [] OTHER -> lv

toMap(v) == LET g == toGoValue(v) IN IF g[1] = "map" THEN <<g[2], TRUE>> ELSE <<(<<>>), FALSE>>
toSlice(v) == LET g == toGoValue(v) IN IF g[1] = "slice" THEN <<g[2], TRUE>> ELSE <<(<<>>), FALSE>>

(***************************************************************************)
(* The first rune of a key and unicode.IsUpper.                            *)
(***************************************************************************)
RuneError == 65533

\* `for _, c := range s { firstChar = c; break }`: the first UTF-8 sequence of
\* s decoded (one- and two-byte sequences; the model's strings hold no lead
\* byte of a longer one), U+FFFD for a byte that starts no valid sequence, and
\* the zero rune for the empty string.
firstRune_FirstByte(s) == IF Len(s) = 0 THEN 0 ELSE s[1]

firstRune(s) ==
    IF Len(s) = 0 THEN 0
    ELSE IF s[1] < 128 THEN s[1]
    ELSE IF s[1] \in 194..223 /\ Len(s) >= 2 /\ s[2] \in 128..191
         THEN (s[1] - 192) * 64 + (s[2] - 128)
    ELSE RuneError

\* unicode.IsUpper for the runes the model's keys decode to (Latin-1 and U+FFFD)
IsUpper(r) == r \in (65..90) \cup (192..214) \cup (216..222)

(***************************************************************************)
(* Errors.                                                                 *)
(***************************************************************************)
NoError == ""
ErrInvalidHook == "invalid hook type"
ErrTags == "unsupported format of tags."
ErrFileScript == "invalid task definition: can't use 'file' and 'script' at the same time."
ErrOnForeach == "invalid task definition: can't use 'foreach' and 'on' at the same time."
ErrPrepare == "prepare have to be function."
ErrReturnedFalse == "returned false from the prepare function."
ErrNotTable == "bad argument (table expected)"

(***************************************************************************)
(* Hosts.                                                                  *)
(***************************************************************************)
MapPut(m, k, v) == [x \in (DOMAIN m) \cup {k} |-> IF x = k THEN v ELSE m[x]]

\* the two kinds of value host.Hooks holds: a Go closure that calls the Lua
\* function, or the command string
NativeCallback(fn) == <<"callback", fn>>
RemoteCommand(s) == <<"command", s>>

registerHook(host, hookPoint, hook) ==
    IF hook # LNil
    THEN IF toLFunction(hook)[2]
         THEN [err |-> NoError,
               host |-> [host EXCEPT !.Hooks = MapPut(@, hookPoint, NativeCallback(hook))]]
         ELSE IF toString(hook)[2]
         THEN [err |-> NoError,
               host |-> [host EXCEPT !.Hooks = MapPut(@, hookPoint, RemoteCommand(toString(hook)[1]))]]
         ELSE [err |-> ErrInvalidHook, host |-> host]
    ELSE [err |-> NoError, host |-> host]

registerRemoteHook(host, hookPoint, hook) ==
    IF hook # LNil
    THEN IF toString(hook)[2]
         THEN [err |-> NoError,
               host |-> [host EXCEPT !.Hooks = MapPut(@, hookPoint, RemoteCommand(toString(hook)[1]))]]
         ELSE [err |-> ErrInvalidHook, host |-> host]
    ELSE [err |-> NoError, host |-> host]

\* config.ForEach(...): the keys whose first rune is upper-case, values as they are
filterConfig(config) ==
    [k \in {x \in DOMAIN config : IsUpper(firstRune(LValueString(x)))} |-> config[k]]

\* the five registrations of registerHost, in order; the first error ends them
registerHooks_CallableAfterConnect(h, hookTb) ==
    LET r1 == registerHook(h, "before", RawGetString(hookTb, Lit["before"]))
        r2 == registerHook(r1.host, "before_connect", RawGetString(hookTb, Lit["before_connect"]))
        r3 == registerHook(r2.host, "after_connect", RawGetString(hookTb, Lit["after_connect"]))
        r4 == registerHook(r3.host, "after", RawGetString(hookTb, Lit["after"]))
        r5 == registerHook(r4.host, "after_disconnect", RawGetString(hookTb, Lit["after_disconnect"]))
    IN  IF r1.err # NoError THEN r1
        ELSE IF r2.err # NoError THEN r2
        ELSE IF r3.err # NoError THEN r3
        ELSE IF r4.err # NoError THEN r4
        ELSE r5

registerHooks(h, hookTb) ==
    LET r1 == registerHook(h, "before", RawGetString(hookTb, Lit["before"]))
        r2 == registerHook(r1.host, "before_connect", RawGetString(hookTb, Lit["before_connect"]))
        r3 == registerRemoteHook(r2.host, "after_connect", RawGetString(hookTb, Lit["after_connect"]))
        r4 == registerHook(r3.host, "after", RawGetString(hookTb, Lit["after"]))
        r5 == registerHook(r4.host, "after_disconnect", RawGetString(hookTb, Lit["after_disconnect"]))
    IN  IF r1.err # NoError THEN r1
        ELSE IF r2.err # NoError THEN r2
        ELSE IF r3.err # NoError THEN r3
        ELSE IF r4.err # NoError THEN r4
        ELSE r5

\* tb.ForEach order: the array part by index, then the other keys
RECURSIVE SetToSeq(_)
SetToSeq(S) == IF S = {} THEN <<>> ELSE LET x == CHOOSE y \in S : TRUE IN <<x>> \o SetToSeq(S \ {x})

ForEachValues(tb) ==
    LET arr == {k \in DOMAIN tb : k[1] = "num" /\ k[2] >= 1}
        idx == SelectSeq([i \in 1..MaxN(tb) |-> i], LAMBDA i : LNumber(i) \in arr)
        rest == SetToSeq((DOMAIN tb) \ arr)
    IN  [i \in 1..Len(idx) |-> tb[LNumber(idx[i])]] \o [i \in 1..Len(rest) |-> tb[rest[i]]]

\* registerHost up to, and without, the append: the Host built, or the error raised
buildHost(name, config) ==
    LET h0 == [Name |-> name, Config |-> filterConfig(config), Hooks |-> <<>>,
               Description |-> <<>>, Hidden |-> FALSE, Tags |-> <<>>]
        hooks == RawGetString(config, Lit["hooks"])
        r1 == IF toLTable(hooks)[2] THEN registerHooks(h0, toLTable(hooks)[1])
              ELSE [err |-> NoError, host |-> h0]
        description == RawGetString(config, Lit["description"])
        h2 == IF toString(description)[2]
              THEN [r1.host EXCEPT !.Description = toString(description)[1]] ELSE r1.host
        hidden == RawGetString(config, Lit["hidden"])
        h3 == IF toBool(hidden)[2] THEN [h2 EXCEPT !.Hidden = toBool(hidden)[1]] ELSE h2
        tags == RawGetString(config, Lit["tags"])
        vals == IF tags[1] = "tbl" THEN ForEachValues(tags[2]) ELSE <<>>
        tagsOk == \A i \in 1..Len(vals) : toString(vals[i])[2]
        h4 == [h3 EXCEPT !.Tags = [i \in 1..Len(vals) |-> toString(vals[i])[1]]]
    IN  IF r1.err # NoError THEN [err |-> r1.err, host |-> h0]
        ELSE IF ~tagsOk THEN [err |-> ErrTags, host |-> h3]
        ELSE [err |-> NoError, host |-> h4]

Lens == <<Len(Hosts), Len(Tasks)>>

\* Host(name, tb) / essh.host(name, tb): esshHost and registerHost.  The DSL
\* style, Host(name)(tb), makes the same registerHost(name, tb) call.
esshHost_AppendFirst(name, tb) ==
    /\ Len(Hosts) < MaxHosts
    /\ LET r == IF tb[1] = "tbl" THEN buildHost(name, tb[2])
                ELSE [err |-> ErrNotTable, host |-> <<>>]
       IN  /\ Hosts' = IF tb[1] = "tbl" THEN Append(Hosts, r.host) ELSE Hosts
           /\ last' = [op |-> "Host", name |-> name, arg |-> tb, err |-> r.err,
                       ret |-> LNil, pre |-> Lens]
    /\ UNCHANGED <<Tasks, LoadedModules, stack, ncalls, loads, evals, nret, returned, conv>>

esshHost(name, tb) ==
    /\ LET r == IF tb[1] = "tbl" THEN buildHost(name, tb[2])
                ELSE [err |-> ErrNotTable, host |-> <<>>]
       IN  /\ r.err = NoError => Len(Hosts) < MaxHosts
           /\ Hosts' = IF r.err = NoError THEN Append(Hosts, r.host) ELSE Hosts
           /\ last' = [op |-> "Host", name |-> name, arg |-> tb, err |-> r.err,
                       ret |-> LNil, pre |-> Lens]
    /\ UNCHANGED <<Tasks, LoadedModules, stack, ncalls, loads, evals, nret, returned, conv>>

\* essh.reset()
esshReset_ClearModules ==
    /\ Tasks' = <<>>
    /\ Hosts' = <<>>
    /\ LoadedModules' = <<>>
    /\ last' = [op |-> "reset", name |-> <<>>, arg |-> LNil, err |-> NoError,
                ret |-> LNil, pre |-> Lens]
    /\ UNCHANGED <<stack, ncalls, loads, evals, nret, returned, conv>>

esshReset ==
    /\ Tasks' = <<>>
    /\ Hosts' = <<>>
    /\ last' = [op |-> "reset", name |-> <<>>, arg |-> LNil, err |-> NoError,
                ret |-> LNil, pre |-> Lens]
    /\ UNCHANGED <<LoadedModules, stack, ncalls, loads, evals, nret, returned, conv>>


(***************************************************************************)
(* Tasks.                                                                  *)
(***************************************************************************)
\* the prefixes of task.go; only their being two different strings matters
DefaultPrefixRemote == <<91, 114, 93>>
DefaultPrefixLocal == <<91, 108, 93>>

NoPrepare == <<"none", 0>>

\* NewTask(): every field at its default
NewTask ==
    [Name |-> <<>>, Description |-> <<>>, Pty |-> FALSE, Parallel |-> FALSE,
     Privileged |-> FALSE, Script |-> <<>>, File |-> <<>>, On |-> <<>>, Foreach |-> <<>>,
     Prefix |-> <<>>, Prepare |-> NoPrepare]

\* task.IsRemoteTask(): the task names targets
IsRemoteTask(task) == Len(task.On) >= 1 \/ Len(task.Foreach) >= 1

\* the `on` / `foreach` coercion: a string alone, or the strings of a slice,
\* appended to the field
Targets(field, v) ==
    IF toString(v)[2] THEN <<toString(v)[1]>>
    ELSE IF toSlice(v)[2]
         THEN LET strs == SelectSeq(toSlice(v)[1], LAMBDA g : g[1] = "gostring")
              IN  field \o [i \in 1..Len(strs) |-> strs[i][2]]
    ELSE field

\* task.Prepare(ctx): the protected call of the Lua function has either
\* failed with an error, <<"raise", e>>, or returned one value, <<"ret", v>>
Prepare_IgnoreFalse(outcome) ==
    IF outcome[1] = "raise" THEN outcome[2] ELSE NoError

Prepare(outcome) ==
    IF outcome[1] = "raise" THEN outcome[2]
    ELSE LET ret == outcome[2]
         IN  IF ret = LNil THEN NoError
             ELSE IF ret[1] = "bool"
                  THEN IF ret[2] THEN NoError ELSE ErrReturnedFalse
             ELSE NoError

\* the two exclusivity checks of registerTask
fileScriptConflict_EitherEmpty(task) == task.File # <<>> /\ task.Script = <<>>

fileScriptConflict(task) == task.File # <<>> /\ task.Script # <<>>

onForeachConflict_MoreThanOne(task) == Len(task.Foreach) > 1 /\ Len(task.On) > 1

onForeachConflict(task) == Len(task.Foreach) >= 1 /\ Len(task.On) >= 1

\* registerTask up to, and without, the append: the Task built, or the error raised
buildTask(name, config) ==
    LET description == RawGetString(config, Lit["description"])
        pty == RawGetString(config, Lit["pty"])
        parallel == RawGetString(config, Lit["parallel"])
        privileged == RawGetString(config, Lit["privileged"])
        script == RawGetString(config, Lit["script"])
        file == RawGetString(config, Lit["file"])
        prefix == RawGetString(config, Lit["prefix"])
        prepare == RawGetString(config, Lit["prepare"])
        \* the fields set before the file/script check
        t1 == [NewTask EXCEPT
                 !.Name = name,
                 !.Description = IF toString(description)[2] THEN toString(description)[1] ELSE @,
                 !.Pty = IF toBool(pty)[2] THEN toBool(pty)[1] ELSE @,
                 !.Parallel = IF toBool(parallel)[2] THEN toBool(parallel)[1] ELSE @,
                 !.Privileged = IF toBool(privileged)[2] THEN toBool(privileged)[1] ELSE @,
                 !.Script = IF toString(script)[2] THEN toString(script)[1] ELSE @,
                 !.File = IF toString(file)[2] THEN toString(file)[1] ELSE @]
        \* then the targets, before the on/foreach check
        t3 == [t1 EXCEPT !.On = Targets(@, RawGetString(config, Lit["on"])),
                         !.Foreach = Targets(@, RawGetString(config, Lit["foreach"]))]
        \* then the prefix and the prepare wrapper
        t5 == [t3 EXCEPT
                 !.Prefix = IF toBool(prefix)[2]
                            THEN IF toBool(prefix)[1]
                                 THEN IF IsRemoteTask(t3) THEN DefaultPrefixRemote
                                      ELSE DefaultPrefixLocal
                                 ELSE @
                            ELSE IF toString(prefix)[2] THEN toString(prefix)[1] ELSE @,
                 !.Prepare = IF prepare[1] = "fn" THEN <<"prepare", prepare>> ELSE @]
    IN  IF fileScriptConflict(t1) THEN [err |-> ErrFileScript, task |-> t1]
        ELSE IF onForeachConflict(t3) THEN [err |-> ErrOnForeach, task |-> t3]
        ELSE IF prepare # LNil /\ prepare[1] # "fn" THEN [err |-> ErrPrepare, task |-> t3]
        ELSE [err |-> NoError, task |-> t5]

\* Task(name, tb) / essh.task(name, tb): esshTask and registerTask.  The DSL
\* style, Task(name)(tb), makes the same registerTask(name, tb) call.
esshTask(name, tb) ==
    /\ LET r == IF tb[1] = "tbl" THEN buildTask(name, tb[2])
                ELSE [err |-> ErrNotTable, task |-> NewTask]
       IN  /\ r.err = NoError => Len(Tasks) < MaxTasks
           /\ Tasks' = IF r.err = NoError THEN Append(Tasks, r.task) ELSE Tasks
           /\ last' = [op |-> "Task", name |-> name, arg |-> tb, err |-> r.err,
                       ret |-> LNil, pre |-> Lens]
    /\ UNCHANGED <<Hosts, LoadedModules, stack, ncalls, loads, evals, nret, returned, conv>>

\* the Task Executor invokes Tasks[i].Prepare(ctx)
InvokePrepare(i, outcome) ==
    /\ i \in 1..Len(Tasks)
    /\ Tasks[i].Prepare # NoPrepare
    /\ last' = [op |-> "Prepare", name |-> Tasks[i].Name, arg |-> outcome,
                err |-> Prepare(outcome), ret |-> LNil, pre |-> Lens]
    /\ UNCHANGED <<Hosts, Tasks, LoadedModules, stack, ncalls, loads, evals, nret, returned, conv>>


(***************************************************************************)
(* Modules.                                                                *)
(***************************************************************************)
ErrLoad == "module load error"
ErrStat == "Could not load essh module"
ErrDoFile == "script error"

\* esshRequire(name) up to the call of L.DoFile.  A name in the registry is
\* answered from it.  Otherwise module.Load runs and, unless it or os.Stat
\* fails (outcome), the evaluation of the index file starts; the scripts it
\* runs may call Host, Task, essh.reset and essh.require again before it ends.
esshRequire(name, outcome) ==
    /\ ncalls[name] < MaxCalls
    /\ ncalls' = [ncalls EXCEPT ![name] = @ + 1]
    /\ IF name \in DOMAIN LoadedModules
       THEN /\ outcome = "ok"
            /\ nret' = [nret EXCEPT ![name] = @ + 1]
            /\ returned' = [returned EXCEPT ![name] = @ \cup {LoadedModules[name].Value}]
            /\ last' = [op |-> "require", name |-> name, arg |-> <<"cached", 0>>,
                        err |-> NoError, ret |-> LoadedModules[name].Value, pre |-> Lens]
            /\ UNCHANGED <<loads, evals, stack>>
       ELSE /\ Len(stack) < MaxDepth
            /\ loads' = [loads EXCEPT ![name] = @ + 1]
            /\ evals' = IF outcome = "ok" THEN [evals EXCEPT ![name] = @ + 1] ELSE evals
            /\ stack' = IF outcome = "ok" THEN Append(stack, name) ELSE stack
            /\ last' = [op |-> "require", name |-> name, arg |-> <<"load", 0>>,
                        err |-> CASE outcome = "load_error" -> ErrLoad
                                  [] outcome = "stat_error" -> ErrStat
                                  [] OTHER -> NoError,
                        ret |-> LNil, pre |-> Lens]
            /\ UNCHANGED <<nret, returned>>
    /\ UNCHANGED <<Hosts, Tasks, LoadedModules, conv>>

\* esshRequire from the return of L.DoFile on: the innermost evaluation ends,
\* with an error (raised, nothing registered) or with the script's value,
\* which becomes module.Value, is registered under the name and is returned
DoFileReturns(outcome) ==
    /\ stack # <<>>
    /\ LET name == stack[Len(stack)]
       IN  /\ stack' = SubSeq(stack, 1, Len(stack) - 1)
           /\ IF outcome[1] = "raise"
              THEN /\ last' = [op |-> "require_done", name |-> name, arg |-> outcome,
                               err |-> outcome[2], ret |-> LNil, pre |-> Lens]
                   /\ UNCHANGED <<LoadedModules, nret, returned>>
              ELSE /\ LoadedModules' = MapPut(LoadedModules, name,
                                              [Name |-> name, Value |-> outcome[2]])
                   /\ nret' = [nret EXCEPT ![name] = @ + 1]
                   /\ returned' = [returned EXCEPT ![name] = @ \cup {outcome[2]}]
                   /\ last' = [op |-> "require_done", name |-> name, arg |-> outcome,
                               err |-> NoError, ret |-> outcome[2], pre |-> Lens]
    /\ UNCHANGED <<Hosts, Tasks, ncalls, loads, evals, conv>>

(***************************************************************************)
(* toGoValue on its own.                                                   *)
(***************************************************************************)
NotConverted == <<"pending", 0>>

Convert ==
    /\ conv.out = NotConverted
    /\ conv' = [conv EXCEPT !.out = toGoValue(conv.in)]
    /\ UNCHANGED <<Hosts, Tasks, LoadedModules, stack, ncalls, loads, evals, nret, returned, last>>

(***************************************************************************)
(* Inputs.                                                                 *)
(***************************************************************************)
\* "m", "n"
ModuleNames == {<<109>>, <<110>>}
\* what a module's index script may return
ModuleValues == {LNumber(1), LNumber(2)}
LoadOutcomes == {"ok", "load_error", "stat_error"}
EvalOutcomes == {<<"ret", v>> : v \in ModuleValues} \cup {<<"raise", ErrDoFile>>}
CallbackOutcomes ==
    {<<"ret", LNil>>, <<"ret", LTrue>>, <<"ret", LFalse>>, <<"ret", LNumber(7)>>,
     <<"raise", "callback error">>}

\* "web", "db"
EntityNames == {<<119, 101, 98>>, <<100, 98>>}
\* "web"
HostNames == {<<119, 101, 98>>}
\* "job"
TaskNames == {<<106, 111, 98>>}

sA == <<97>>
sB == <<98>>
sCmd == <<108, 115>>

\* all tables with the given keys and, for each key, one of the given values
TablesOver(keys, values) == UNION {[S -> values] : S \in SUBSET keys}
Tbl(keys, vals) == [k \in {keys[i] : i \in 1..Len(keys)} |->
                      vals[CHOOSE i \in 1..Len(keys) : keys[i] = k]]
Arr(vals) == LTable([k \in {LNumber(i) : i \in 1..Len(vals)} |-> vals[k[2]]])
Merge(f, g) == [k \in (DOMAIN f) \cup (DOMAIN g) |-> IF k \in DOMAIN g THEN g[k] ELSE f[k]]

\* -- hosts
HookPoints == {"before", "before_connect", "after_connect", "after", "after_disconnect"}
HookValues == {LFunction(1), LString(sCmd), LNumber(5)}
\* hook tables: empty, one hook point set, or before and after_connect set
HookTables ==
    {EmptyTable}
    \cup {Tbl(<<LString(Lit[p])>>, <<v>>) : p \in HookPoints, v \in HookValues}
    \cup {Tbl(<<LString(Lit["before"]), LString(Lit["after_connect"])>>, <<v, w>>) :
            v \in HookValues, w \in HookValues}

\* keys of a host table besides the four the builder reads:
\* "User", "user", "", 1, "É", "é", the lone byte 0xC3, true
kUser == LString(<<85, 115, 101, 114>>)
kuser == LString(<<117, 115, 101, 114>>)
kEmpty == LString(<<>>)
kOne == LNumber(1)
kEacuteUpper == LString(<<195, 137>>)
kEacuteLower == LString(<<195, 169>>)
kLoneByte == LString(<<195>>)
kTrue == LTrue
ExtraKeys == {kUser, kuser, kEmpty, kOne, kEacuteUpper, kEacuteLower, kLoneByte, kTrue}
\* each extra key with a value of its own
ExtraValue(k) == IF k[1] = "str" THEN LString(k[2] \o sA) ELSE LNumber(9)
ExtraTables ==
    {[k \in S |-> ExtraValue(k)] :
        S \in {{}} \cup {{k} : k \in ExtraKeys} \cup {{kUser, kuser}, ExtraKeys}}

KnownGood ==
    Tbl(<<LString(Lit["hooks"]), LString(Lit["description"]), LString(Lit["hidden"]),
          LString(Lit["tags"])>>,
        <<LTable(Tbl(<<LString(Lit["before"]), LString(Lit["after_connect"])>>,
                     <<LFunction(1), LString(sCmd)>>)),
          LString(sA), LTrue, Arr(<<LString(sA), LString(sB)>>)>>)
KnownMismatch ==
    Tbl(<<LString(Lit["hooks"]), LString(Lit["description"]), LString(Lit["hidden"]),
          LString(Lit["tags"])>>,
        <<LString(sA), LNumber(5), LString(sA), LString(sA)>>)
KnownBadTags ==
    Tbl(<<LString(Lit["tags"])>>, <<Arr(<<LString(sA), LNumber(5)>>)>>)

HostArgs ==
    {LTable(Tbl(<<LString(Lit["hooks"])>>, <<LTable(ht)>>)) : ht \in HookTables}
    \cup {LTable(Merge(known, extra)) :
            known \in {EmptyTable, KnownGood, KnownMismatch, KnownBadTags},
            extra \in ExtraTables}
    \cup {LString(sA)}

\* -- tasks
ScriptValues == {LString(sCmd), LString(<<>>)}
FileValues == {LString(sA)}
OnValues ==
    {LString(sA), Arr(<<LString(sA), LString(sB)>>), Arr(<<LNumber(5), LString(sA)>>),
     Arr(<<LNumber(5)>>), LTable(Tbl(<<LString(sA)>>, <<LString(sA)>>))}
ForeachValues == {LString(sB), Arr(<<LString(sB)>>), Arr(<<LNumber(5)>>)}
PrepareValues == {LFunction(2), LString(sA), LFalse}
PrefixValues == {LTrue, LFalse, LString(sA)}

Optional(key, values) == {EmptyTable} \cup {Tbl(<<LString(Lit[key])>>, <<v>>) : v \in values}

FlagsSet ==
    Tbl(<<LString(Lit["description"]), LString(Lit["pty"]), LString(Lit["parallel"]),
          LString(Lit["privileged"])>>, <<LString(sA), LTrue, LTrue, LTrue>>)
FlagsMismatch ==
    Tbl(<<LString(Lit["description"]), LString(Lit["pty"]), LString(Lit["parallel"]),
          LString(Lit["privileged"])>>, <<LTrue, LString(sA), LNumber(5), LFalse>>)

TaskArgs ==
    {LTable(Merge(Merge(s, f), Merge(o, e))) :
        s \in Optional("script", ScriptValues), f \in Optional("file", FileValues),
        o \in Optional("on", {LString(sA)}), e \in Optional("foreach", {LString(sB)})}
    \cup {LTable(Merge(o, e)) :
            o \in Optional("on", OnValues), e \in Optional("foreach", ForeachValues)}
    \cup {LTable(Merge(p, o)) :
            p \in Optional("prepare", PrepareValues), o \in Optional("on", {LString(sA)})}
    \cup {LTable(Merge(p, Merge(s, f))) :
            p \in Optional("prepare", {LFunction(2), LString(sA)}),
            s \in Optional("script", {LString(sCmd)}), f \in Optional("file", FileValues)}
    \cup {LTable(Merge(x, Merge(o, e))) :
            x \in Optional("prefix", PrefixValues),
            o \in Optional("on", {LString(sA)}), e \in Optional("foreach", {LString(sB)})}
    \cup {LTable(FlagsSet), LTable(FlagsMismatch), LNumber(5)}

\* one host and one task definition for the runs that are about modules
PlainHostArgs == {LTable(Merge(KnownGood, Tbl(<<kUser>>, <<LString(sA)>>)))}
PlainTaskArgs == {LTable(Tbl(<<LString(Lit["script"])>>, <<LString(sCmd)>>))}

\* one definition per way of failing and of succeeding
hooksOf(ht) == LTable(Tbl(<<LString(Lit["hooks"])>>, <<LTable(ht)>>))
CoreHostArgs ==
    PlainHostArgs
    \cup {LTable(EmptyTable), LTable(KnownBadTags), LString(sA),
          hooksOf(Tbl(<<LString(Lit["before"])>>, <<LNumber(5)>>)),
          hooksOf(Tbl(<<LString(Lit["after_connect"])>>, <<LFunction(1)>>)),
          hooksOf(Tbl(<<LString(Lit["after"])>>, <<LFunction(1)>>))}
CoreTaskArgs ==
    PlainTaskArgs
    \cup {LTable(EmptyTable), LNumber(5),
          LTable(Tbl(<<LString(Lit["script"]), LString(Lit["file"])>>, <<LString(sCmd), LString(sA)>>)),
          LTable(Tbl(<<LString(Lit["on"]), LString(Lit["foreach"])>>, <<LString(sA), LString(sB)>>)),
          LTable(Tbl(<<LString(Lit["prepare"])>>, <<LString(sA)>>)),
          LTable(Tbl(<<LString(Lit["prepare"]), LString(Lit["on"])>>, <<LFunction(2), LString(sA)>>))}

\* -- toGoValue
ConvKeys == {LNumber(1), LNumber(2), LNumber(3), LNumber(0), LString(sA)}
ConvScalars == {LNil, LTrue, LString(sB), LNumber(7), LFunction(1)}
ConvInner == {LString(sB), LNumber(7), Arr(<<LString(sA)>>)}
ConvInputs == ConvScalars \cup {LTable(t) : t \in TablesOver(ConvKeys, ConvInner)}

(***************************************************************************)
(* Specifications.                                                         *)
(***************************************************************************)
Zero == [n \in ModuleNames |-> 0]

Init ==
    /\ Hosts = <<>>
    /\ Tasks = <<>>
    /\ LoadedModules = <<>>
    /\ stack = <<>>
    /\ ncalls = Zero
    /\ loads = Zero
    /\ evals = Zero
    /\ nret = Zero
    /\ returned = [n \in ModuleNames |-> {}]
    /\ last = [op |-> "init", name |-> <<>>, arg |-> LNil, err |-> NoError,
               ret |-> LNil, pre |-> <<0, 0>>]
    /\ conv = [in |-> LNil, out |-> NotConverted]

\* scripts that require modules, define a host and a task, and reset
Next ==
    \/ \E name \in ModuleNames, outcome \in LoadOutcomes : esshRequire(name, outcome)
    \/ \E outcome \in EvalOutcomes : DoFileReturns(outcome)
    \/ esshReset
    \/ \E name \in HostNames, tb \in PlainHostArgs : esshHost(name, tb)
    \/ \E name \in TaskNames, tb \in PlainTaskArgs : esshTask(name, tb)

Spec == Init /\ [][Next]_vars

\* scripts that define hosts and tasks, well-formed and not, and reset
NextBuild ==
    \/ \E name \in EntityNames, tb \in CoreHostArgs : esshHost(name, tb)
    \/ \E name \in EntityNames, tb \in CoreTaskArgs : esshTask(name, tb)
    \/ esshReset

SpecBuild == Init /\ [][NextBuild]_vars

\* scripts that define hosts
NextHost ==
    \/ \E name \in HostNames, tb \in HostArgs : esshHost(name, tb)
    \/ esshReset

SpecHost == Init /\ [][NextHost]_vars

\* scripts that define tasks, and the executor preparing them
NextTask ==
    \/ \E name \in TaskNames, tb \in TaskArgs : esshTask(name, tb)
    \/ \E i \in 1..Len(Tasks), outcome \in CallbackOutcomes : InvokePrepare(i, outcome)
    \/ esshReset

SpecTask == Init /\ [][NextTask]_vars

\* toGoValue applied to one value
InitConv ==
    /\ Hosts = <<>>
    /\ Tasks = <<>>
    /\ LoadedModules = <<>>
    /\ stack = <<>>
    /\ ncalls = Zero
    /\ loads = Zero
    /\ evals = Zero
    /\ nret = Zero
    /\ returned = [n \in ModuleNames |-> {}]
    /\ last = [op |-> "init", name |-> <<>>, arg |-> LNil, err |-> NoError,
               ret |-> LNil, pre |-> <<0, 0>>]
    /\ conv \in {[in |-> v, out |-> NotConverted] : v \in ConvInputs}

NextConv == Convert

SpecConv == InitConv /\ [][NextConv]_vars

(***************************************************************************)
(* Properties.                                                             *)
(***************************************************************************)
IsTable(v) == v[1] = "tbl"
NonEmptyString(v) == v[1] = "str" /\ v[2] # <<>>
Field(tb, key) == RawGetString(tb[2], Lit[key])
LastHost == Hosts[Len(Hosts)]
LastTask == Tasks[Len(Tasks)]

\* C1: when require(m) has been called twice and both calls have returned,
\* module.Load has run at most once for m and both calls returned the same value.
C1_TwoCallsOneLoad ==
    \A m \in ModuleNames :
        (ncalls[m] = 2 /\ nret[m] = 2) => (loads[m] <= 1 /\ Cardinality(returned[m]) <= 1)

\* C2: over any sequence of require calls, re-entered and retried ones
\* included, each module's script is evaluated at most once, and a value once
\* memoized under a name is never replaced or evicted.
C2_EvaluatedOnceNeverReplaced ==
    [][ /\ \A m \in ModuleNames : evals'[m] <= 1
        /\ \A m \in DOMAIN LoadedModules :
              m \in DOMAIN LoadedModules' /\ LoadedModules'[m] = LoadedModules[m] ]_vars

\* C3: reset() leaves Hosts and Tasks empty and the registry as it was; a
\* require of a registered name runs neither the loader nor the script and
\* returns the registered value.
C3_ResetKeepsModules ==
    [][ /\ last'.op = "reset" =>
              /\ Hosts' = <<>>
              /\ Tasks' = <<>>
              /\ LoadedModules' = LoadedModules
        /\ (last'.op = "require" /\ last'.name \in DOMAIN LoadedModules) =>
              /\ loads' = loads
              /\ evals' = evals
              /\ stack' = stack
              /\ LoadedModules' = LoadedModules
              /\ last'.err = NoError
              /\ last'.ret = LoadedModules[last'.name].Value ]_vars

\* reset() has just emptied a Host and a Task collection of one element each
\* while a module was registered
C3_Witness ==
    /\ last.op = "reset"
    /\ last.pre = <<1, 1>>
    /\ Hosts = <<>>
    /\ Tasks = <<>>
    /\ DOMAIN LoadedModules # {}

\* C4: a task table whose file and script are both non-empty strings fails
\* with the file/script error and adds no Task, and no Task of the collection
\* has File and Script both non-empty.
C4_FileScriptExclusive ==
    /\ (last.op = "Task" /\ IsTable(last.arg)
          /\ NonEmptyString(Field(last.arg, "file"))
          /\ NonEmptyString(Field(last.arg, "script")))
       => (last.err = ErrFileScript /\ Len(Tasks) = last.pre[2])
    /\ \A i \in 1..Len(Tasks) : ~(Tasks[i].File # <<>> /\ Tasks[i].Script # <<>>)

C4_Witness ==
    /\ last.op = "Task"
    /\ IsTable(last.arg)
    /\ NonEmptyString(Field(last.arg, "file"))
    /\ NonEmptyString(Field(last.arg, "script"))
    /\ last.err = ErrFileScript

\* what `on` or `foreach` resolves to: the string alone, or the strings of the sequence
Resolved(tb, key) == Targets(<<>>, Field(tb, key))
BothTargets(tb) == Resolved(tb, "on") # <<>> /\ Resolved(tb, "foreach") # <<>>

\* C5, as stated: a task table whose on and foreach both resolve to non-empty
\* sequences fails with the on/foreach error, and no Task of the collection has
\* On and Foreach both non-empty.
C5_AlwaysOnForeachError ==
    /\ (last.op = "Task" /\ IsTable(last.arg) /\ BothTargets(last.arg))
       => last.err = ErrOnForeach
    /\ \A i \in 1..Len(Tasks) : ~(Tasks[i].On # <<>> /\ Tasks[i].Foreach # <<>>)

\* C5, amended: such a table fails and adds no Task; the error is the
\* on/foreach error unless file and script are both non-empty strings, and
\* then it is the file/script error, raised first.  No Task of the collection
\* has On and Foreach both non-empty.
C5_OnForeachExclusive ==
    /\ (last.op = "Task" /\ IsTable(last.arg) /\ BothTargets(last.arg))
       => /\ last.err = IF NonEmptyString(Field(last.arg, "file"))
                           /\ NonEmptyString(Field(last.arg, "script"))
                        THEN ErrFileScript ELSE ErrOnForeach
          /\ Len(Tasks) = last.pre[2]
    /\ \A i \in 1..Len(Tasks) : ~(Tasks[i].On # <<>> /\ Tasks[i].Foreach # <<>>)

\* a table whose `on` is a sequence and whose `foreach` is a string has just
\* been refused with the on/foreach error
C5_Witness ==
    /\ last.op = "Task"
    /\ IsTable(last.arg)
    /\ IsTable(Field(last.arg, "on"))
    /\ BothTargets(last.arg)
    /\ last.err = ErrOnForeach

\* the hooks table of a host table, the empty table when there is none
HooksOf(tb) == toLTable(Field(tb, "hooks"))[1]
HookOf(tb, p) == RawGetString(HooksOf(tb), Lit[p])
CallableOrString(v) == v = LNil \/ v[1] = "fn" \/ v[1] = "str"
OtherHookPoints == {"before", "before_connect", "after", "after_disconnect"}
TagsAreStrings(tb) ==
    LET tags == Field(tb, "tags")
    IN  IsTable(tags) => \A k \in DOMAIN tags[2] : tags[2][k][1] = "str"

\* C6: Hooks["after_connect"] of every Host is absent or a command string.  A
\* callable after_connect fails construction.  A string after_connect is
\* accepted and stored as it is, and the four other hook points take a callable
\* (stored as a callback) as well as a string (stored as a command):
\* construction fails only for a hook of another type or a tag that is no string.
C6_AfterConnectIsCommand ==
    /\ \A i \in 1..Len(Hosts) :
          "after_connect" \in DOMAIN Hosts[i].Hooks => Hosts[i].Hooks["after_connect"][1] = "command"
    /\ (last.op = "Host" /\ IsTable(last.arg)) =>
          LET ac == HookOf(last.arg, "after_connect")
          IN  /\ ac[1] = "fn" => (last.err # NoError /\ Len(Hosts) = last.pre[1])
              /\ last.err = NoError <=>
                    /\ ac = LNil \/ ac[1] = "str"
                    /\ \A p \in OtherHookPoints : CallableOrString(HookOf(last.arg, p))
                    /\ TagsAreStrings(last.arg)
              /\ last.err = NoError =>
                    /\ ac[1] = "str" => LastHost.Hooks["after_connect"] = <<"command", ac[2]>>
                    /\ ac = LNil => "after_connect" \notin DOMAIN LastHost.Hooks
                    /\ \A p \in OtherHookPoints :
                          LET v == HookOf(last.arg, p)
                          IN  /\ v[1] = "fn" => LastHost.Hooks[p] = <<"callback", v>>
                              /\ v[1] = "str" => LastHost.Hooks[p] = <<"command", v[2]>>
                              /\ v = LNil => p \notin DOMAIN LastHost.Hooks

\* a Host has just been built from a callable before and a string after_connect
C6_Witness ==
    /\ last.op = "Host"
    /\ last.err = NoError
    /\ IsTable(last.arg)
    /\ HookOf(last.arg, "after_connect") = LString(sCmd)
    /\ HookOf(last.arg, "before") = LFunction(1)
    /\ LastHost.Hooks["after_connect"] = <<"command", sCmd>>
    /\ LastHost.Hooks["before"][1] = "callback"

\* the keys of the model's host tables whose string form starts with an
\* upper-case character: "User" and "É"
UpperFirstKeys == {kUser, kEacuteUpper}

\* C7: Config keeps a key of the host table, with its value, exactly when the
\* first character of the key's string form is upper-case.
C7_ConfigKeepsUpperFirstKeys ==
    /\ \A i \in 1..Len(Hosts) : DOMAIN Hosts[i].Config \subseteq UpperFirstKeys
    /\ (last.op = "Host" /\ last.err = NoError) =>
          /\ DOMAIN LastHost.Config = (DOMAIN last.arg[2]) \cap UpperFirstKeys
          /\ \A k \in DOMAIN LastHost.Config : LastHost.Config[k] = last.arg[2][k]

\* a Host has just been built from a table holding every kind of key
C7_Witness ==
    /\ last.op = "Host"
    /\ last.err = NoError
    /\ ExtraKeys \cup {LString(Lit["hooks"]), LString(Lit["tags"])} \subseteq DOMAIN last.arg[2]
    /\ DOMAIN LastHost.Config = UpperFirstKeys

\* what the values inside the model's tables convert to
ExpectedInner(v) ==
    CASE v = LString(sB) -> <<"gostring", sB>>
      [] v = LNumber(7) -> <<"float64", 7>>
      [] v = Arr(<<LString(sA)>>) -> <<"slice", <<(<<"gostring", sA>>)>> >>

KeysAre(v, idx) == IsTable(v) /\ DOMAIN v[2] = {LNumber(i) : i \in idx}
Converted == conv.out # NotConverted

\* C8, as stated: a table with keys {1,2,3} becomes a Sequence of its three
\* converted values in index order, and a table with keys {1,3} a Mapping.
C8_HoleGivesMapping ==
    Converted =>
        /\ KeysAre(conv.in, {1, 2, 3}) =>
              conv.out = <<"slice", [i \in 1..3 |-> ExpectedInner(conv.in[2][LNumber(i)])]>>
        /\ KeysAre(conv.in, {1, 3}) => conv.out[1] = "map"

\* C8, amended: a table with keys {1,2,3} becomes a Sequence of its three
\* converted values in index order, and a table with keys {1,3} becomes a
\* Sequence too, the converted value of key 1 first.
C8_HoleGivesSequence ==
    Converted =>
        /\ KeysAre(conv.in, {1, 2, 3}) =>
              conv.out = <<"slice", [i \in 1..3 |-> ExpectedInner(conv.in[2][LNumber(i)])]>>
        /\ KeysAre(conv.in, {1, 3}) =>
              /\ conv.out[1] = "slice"
              /\ Len(conv.out[2]) >= 1
              /\ conv.out[2][1] = ExpectedInner(conv.in[2][LNumber(1)])

\* a table with keys {1,3} has been converted
C8_Witness ==
    /\ Converted
    /\ KeysAre(conv.in, {1, 3})
    /\ conv.out[1] = "slice"

\* C9: Prepare's result follows from what the callback did when Prepare was
\* invoked: the "returned false" error for false, success for nil and true,
\* the failure itself when the protected call failed.  Building a Task from a
\* callable prepare does not fail on account of it and stores the wrapper; a
\* prepare that is neither nil nor callable fails construction.
C9_PrepareOutcome ==
    /\ last.op = "Prepare" =>
          /\ last.arg = <<"ret", LFalse>> => last.err = ErrReturnedFalse
          /\ last.arg \in {<<"ret", LNil>>, <<"ret", LTrue>>} => last.err = NoError
          /\ last.arg[1] = "raise" => last.err = last.arg[2]
          /\ last.err # NoError => (last.arg = <<"ret", LFalse>> \/ last.arg[1] = "raise")
    /\ (last.op = "Task" /\ IsTable(last.arg)) =>
          LET prepare == Field(last.arg, "prepare")
          IN  /\ prepare[1] = "fn" =>
                    /\ last.err \in {NoError, ErrFileScript, ErrOnForeach}
                    /\ last.err = NoError => LastTask.Prepare = <<"prepare", prepare>>
              /\ (prepare # LNil /\ prepare[1] # "fn") =>
                    (last.err # NoError /\ Len(Tasks) = last.pre[2])
              /\ (prepare = LNil /\ last.err = NoError) => LastTask.Prepare = NoPrepare

\* Prepare has just been invoked and its callback returned false
C9_Witness ==
    /\ last.op = "Prepare"
    /\ last.arg = <<"ret", LFalse>>
    /\ last.err = ErrReturnedFalse

\* the definitions of the model that fail validation
FailingHostArgs == CoreHostArgs \ (PlainHostArgs \cup {LTable(EmptyTable), LString(sA),
                        hooksOf(Tbl(<<LString(Lit["after"])>>, <<LFunction(1)>>))})
FailingTaskArgs == CoreTaskArgs \ (PlainTaskArgs \cup {LTable(EmptyTable), LNumber(5),
                        LTable(Tbl(<<LString(Lit["prepare"]), LString(Lit["on"])>>,
                                   <<LFunction(2), LString(sA)>>))})

====
